---------------------------- MODULE Spec2Model ----------------------------
(***************************************************************************)
(* Model of local-router: the provider registry / router                   *)
(* (src/server/types.go, Server.FindProvider, Server.GetActualModelName),  *)
(* the configuration validation (src/server/config.go, Config.Validate),   *)
(* the chat-completion handler and the reload handler                      *)
(* (src/server/handlers.go, Server.ForwardRequest,                         *)
(* Server.ConfigReloadHandler) and the streaming reshaper / aggregator     *)
(* (src/server/handlers.go, Server.HandleStreamResponse).                  *)
(*                                                                         *)
(* Go strings that the code indexes (provider names, model identifiers,    *)
(* content fragments) are sequences of one-character strings; a Go index i *)
(* is the TLA+ index i+1 and the Go slice s[a:b] is SubSeq(s, a+1, b).     *)
(***************************************************************************)
EXTENDS Integers, Sequences, FiniteSets, TLC

VARIABLES
    config,            \* Server.config: the installed configuration
    called,            \* which registry operation ran last ("none" at start)
    modelName,         \* the modelName argument (the client's identifier)
    provider,          \* FindProvider's result: index into Providers, 0 = nil
    actualModelName,   \* GetActualModelName's result
    isClientStreaming, \* HandleStreamResponse argument
    upstream,          \* the lines the upstream body yields before it closes
    pos,               \* number of upstream lines the scanner has returned
    pc,                \* position of HandleStreamResponse
    fullContent,       \* strings.Builder fullContent
    firstResponse,     \* firstResponse (NilChunk = nil map)
    chunkCount,        \* chunkCount
    out,               \* what has been written to the ResponseWriter, in order
    flushed,           \* number of entries of out pushed by flusher.Flush()
    sawDone,           \* the loop was left through the [DONE] break
    mu,                \* Server.mu, the sync.RWMutex guarding config
    fpc,               \* position of ForwardRequest
    request,           \* the inbound chat-completion request r
    outbound,          \* the upstream calls issued by client.Do, in order
    resp,              \* head of the upstream response (status, headers)
    w,                 \* head of the client response (http.ResponseWriter)
    snap,              \* the configuration each registry read of the
                       \* request was served from
    reload,            \* position and response of ConfigReloadHandler
    configFile,        \* what loadConfig(s.configPath) yields
    models,            \* position, locals and response of ModelsHandler
    ctx                \* the chat request's context: "live" or "expired"

vars == <<config, called, modelName, provider, actualModelName,
          isClientStreaming, upstream, pos, pc, fullContent, firstResponse,
          chunkCount, out, flushed, sawDone, mu, fpc, request, outbound,
          resp, w, snap, reload, configFile, models, ctx>>

\* what the reshaper and the bare registry lookups never touch
serverVars == <<mu, fpc, request, outbound, resp, snap, reload, configFile,
                models, ctx>>

routerVars == <<config, called, provider, actualModelName>>

reshaperVars == <<isClientStreaming, upstream, pos, pc, fullContent,
                  firstResponse, chunkCount, out, flushed, sawDone>>

---------------------------------------------------------------------------
(* Bounds *)

MaxNameLen == 2      \* longest provider name drawn
MaxProviders == 2    \* most providers in a configuration
MaxIdLen == 5        \* longest model identifier drawn
MaxReloads == 2      \* most reload requests after the first
MaxLines == 3        \* most upstream lines before the body closes
MaxToolLines == 2    \* most upstream lines of a body with tool calls

(* Characters of provider names and of model identifiers *)
NameChars == {"a", "]"}
IdChars == {"[", "]", "a"}

SeqsUpTo(S, n) == UNION {[1..k -> S] : k \in 0..n}

---------------------------------------------------------------------------
(* Configuration: src/server/types.go Provider, Config; config.go Validate *)

\* an error value: its message and the provider (1-based) it names, 0 if none
Err(msg, at) == [msg |-> msg, at |-> at]

NoError == Err("nil", 0)

\* url.Parse(provider.URL) succeeds
URLParses(u) == u # ":bad"

\* lines 22-41: the first condition a provider fails, "nil" if it passes all
ProviderErrorSecretUnchecked(p) ==
    IF p.Name = <<>> THEN "name cannot be empty"
    ELSE IF p.URL = "" THEN "URL cannot be empty"
    ELSE IF ~URLParses(p.URL) THEN "invalid URL"
    ELSE IF Len(p.Models) = 0 THEN "at least one model must be specified"
    ELSE IF \E j \in 1..Len(p.Models) : p.Models[j] = <<>>
    THEN "model cannot be empty"
    ELSE "nil"

ProviderErrorSecretFirst(p) ==
    IF p.Secret = "" THEN "secret cannot be empty"
    ELSE IF p.Name = <<>> THEN "name cannot be empty"
    ELSE IF p.URL = "" THEN "URL cannot be empty"
    ELSE IF ~URLParses(p.URL) THEN "invalid URL"
    ELSE IF Len(p.Models) = 0 THEN "at least one model must be specified"
    ELSE IF \E j \in 1..Len(p.Models) : p.Models[j] = <<>>
    THEN "model cannot be empty"
    ELSE "nil"

ProviderError(p) ==
    IF p.Name = <<>> THEN "name cannot be empty"
    ELSE IF p.URL = "" THEN "URL cannot be empty"
    ELSE IF ~URLParses(p.URL) THEN "invalid URL"
    ELSE IF p.Secret = "" THEN "secret cannot be empty"
    ELSE IF Len(p.Models) = 0 THEN "at least one model must be specified"
    ELSE IF \E j \in 1..Len(p.Models) : p.Models[j] = <<>>
    THEN "model cannot be empty"
    ELSE "nil"

ValidatePortUnchecked(c) ==
    IF Len(c.Providers) = 0
    THEN Err("at least one provider must be configured", 0)
    ELSE IF \E i \in 1..Len(c.Providers) : ProviderError(c.Providers[i]) # "nil"
    THEN LET i == CHOOSE k \in 1..Len(c.Providers) :
                    /\ ProviderError(c.Providers[k]) # "nil"
                    /\ \A j \in 1..(k - 1) : ProviderError(c.Providers[j]) = "nil"
         IN  Err(ProviderError(c.Providers[i]), i)
    ELSE NoError

Validate(c) ==
    IF c.Port <= 0 \/ c.Port > 65535
    THEN Err("port must be between 1 and 65535", 0)
    ELSE IF Len(c.Providers) = 0
    THEN Err("at least one provider must be configured", 0)
    ELSE IF \E i \in 1..Len(c.Providers) : ProviderError(c.Providers[i]) # "nil"
    THEN LET i == CHOOSE k \in 1..Len(c.Providers) :
                    /\ ProviderError(c.Providers[k]) # "nil"
                    /\ \A j \in 1..(k - 1) : ProviderError(c.Providers[j]) = "nil"
         IN  Err(ProviderError(c.Providers[i]), i)
    ELSE NoError

MkProvider(name) ==
    [Name |-> name, URL |-> "https://x", Secret |-> "s", Models |-> << <<"a">> >>]

CandidateConfigs ==
    {[Port |-> 8080, Providers |-> [i \in 1..Len(ns) |-> MkProvider(ns[i])]] :
        ns \in SeqsUpTo(SeqsUpTo(NameChars, MaxNameLen), MaxProviders)}

InstallableConfigs == {c \in CandidateConfigs : Validate(c) = NoError}

---------------------------------------------------------------------------
(* Provider registry / router: src/server/types.go 248-268 *)

MatchesNoLengthCheck(name, m) ==
    /\ Len(m) >= Len(name) + 2
    /\ m[1] = "["
    /\ m[Len(name) + 2] = "]"
    /\ SubSeq(m, 2, Len(name) + 1) = name

Matches(name, m) ==
    /\ Len(m) > Len(name) + 2
    /\ m[1] = "["
    /\ m[Len(name) + 2] = "]"
    /\ SubSeq(m, 2, Len(name) + 1) = name

FindProviderLastMatch(cfg, m) ==
    IF \E i \in 1..Len(cfg.Providers) : Matches(cfg.Providers[i].Name, m)
    THEN CHOOSE i \in 1..Len(cfg.Providers) :
            /\ Matches(cfg.Providers[i].Name, m)
            /\ \A j \in (i + 1)..Len(cfg.Providers) :
                  ~Matches(cfg.Providers[j].Name, m)
    ELSE 0

FindProviderDefaultFirst(cfg, m) ==
    IF \E i \in 1..Len(cfg.Providers) : Matches(cfg.Providers[i].Name, m)
    THEN CHOOSE i \in 1..Len(cfg.Providers) :
            /\ Matches(cfg.Providers[i].Name, m)
            /\ \A j \in 1..(i - 1) : ~Matches(cfg.Providers[j].Name, m)
    ELSE IF Len(cfg.Providers) > 0 THEN 1 ELSE 0

FindProvider(cfg, m) ==
    IF \E i \in 1..Len(cfg.Providers) : Matches(cfg.Providers[i].Name, m)
    THEN CHOOSE i \in 1..Len(cfg.Providers) :
            /\ Matches(cfg.Providers[i].Name, m)
            /\ \A j \in 1..(i - 1) : ~Matches(cfg.Providers[j].Name, m)
    ELSE 0

GetActualModelNameKeepBracket(cfg, m) ==
    LET p == FindProvider(cfg, m)
    IN  IF p # 0
        THEN SubSeq(m, Len(cfg.Providers[p].Name) + 2, Len(m))
        ELSE m

GetActualModelName(cfg, m) ==
    LET p == FindProvider(cfg, m)
    IN  IF p # 0
        THEN SubSeq(m, Len(cfg.Providers[p].Name) + 3, Len(m))
        ELSE m


---------------------------------------------------------------------------
(* Upstream lines and decoded chunks: src/server/handlers.go 205-226.      *)
(* A decoded chunk (map[string]interface{}) is a record of the keys the    *)
(* reshaper reads; a key that is missing has the value Absent, a key whose *)
(* value is not a JSON string has the value NonString.  choices describes  *)
(* chunk["choices"] and its first element.                                 *)

Absent == "<absent>"
NonString == "<number>"
ChunkObject == "chat.completion.chunk"
AbsentModel == <<"?">>

IsString(v) == v # Absent /\ v # NonString

\* kind: "absent"      chunk has no choices array
\*       "empty"       choices is []
\*       "nodelta"     choices[0] is not an object or has no delta key
\*       "deltanonmap" choices[0].delta is present but not an object
\*       "delta"       choices[0].delta is an object
\*       "message"     choices[0].delta was replaced by a message
Choice(kind, hasContent, content) ==
    [kind |-> kind, hasContent |-> hasContent, content |-> content]

Fragments == {<<"H", "e">>, <<"l", "l", "o">>}

ChoiceShapes ==
    {Choice(k, FALSE, <<>>) :
        k \in {"absent", "empty", "nodelta", "deltanonmap", "delta"}}
    \cup {Choice("delta", TRUE, f) : f \in Fragments}

\* tool_calls: the entries of choices[0].delta.tool_calls, each given by
\* its id: a string, Absent for an object with no id, Null for an object
\* whose id is null, NonObject for an entry that is not an object; <<>>
\* when the delta has no non-empty tool_calls array
NonObject == "<nonobject>"
Null == "<null>"

NilChunk ==
    [id |-> "<nil>", trace_id |-> "<nil>", object |-> "<nil>",
     model |-> AbsentModel, choices |-> Choice("absent", FALSE, <<>>),
     tool_calls |-> <<>>]

UpstreamModel == <<"a">>

MkChunk(id, traceId, object, choices) ==
    [id |-> id, trace_id |-> traceId, object |-> object,
     model |-> UpstreamModel, choices |-> choices, tool_calls |-> <<>>]

WithToolCalls(chunk, calls) == [chunk EXCEPT !.tool_calls = calls]

\* every shape of choices under one identity, and every identity and
\* object under one shape
Chunks ==
    {MkChunk("i1", Absent, ChunkObject, s) : s \in ChoiceShapes}
    \cup {MkChunk(i[1], i[2], ChunkObject, Choice("delta", TRUE, <<"H", "e">>)) :
            i \in {<<Absent, "t1">>, <<Absent, Absent>>, <<NonString, "t1">>}}
    \cup {MkChunk("i1", Absent, Absent, Choice("delta", TRUE, <<"H", "e">>))}

\* kind: "other"   a line that does not start with "data:"
\*       "done"    the line "data:[DONE]"
\*       "done_sp" the line "data: [DONE]" (the payload is " [DONE]")
\*       "bad"     a data: line whose payload is not JSON
\*       "null"    the line "data: null"
\*       "chunk"   a data: line whose payload is a JSON object
Line(kind, chunk) == [kind |-> kind, chunk |-> chunk]

Lines ==
    {Line(k, NilChunk) : k \in {"other", "done", "done_sp", "bad", "null"}}
    \cup {Line("chunk", c) : c \in Chunks}

HasDataPrefix(line) == line.kind # "other"

\* dataStr == "[DONE]": the payload is compared as it is, untrimmed
IsDoneToken(line) == line.kind = "done"

\* json.Unmarshal([]byte(dataStr), &chunk): " [DONE]" and other non-JSON
\* payloads are errors; null is no error and leaves the map nil
Decode(line) ==
    CASE line.kind = "chunk" -> [err |-> FALSE, chunk |-> line.chunk]
      [] line.kind = "null" -> [err |-> FALSE, chunk |-> NilChunk]
      [] OTHER -> [err |-> TRUE, chunk |-> NilChunk]

---------------------------------------------------------------------------
(* Streaming reshaper: src/server/handlers.go 191-293 *)

\* scanner.Scan(): another line is returned unless the body has closed
ScannerScan(lines, p) == p < Len(lines)

\* where the loop goes after one data: line (break on [DONE], else go on)
PcAfterLineBreakOnError(line) ==
    IF HasDataPrefix(line) /\ (IsDoneToken(line) \/ Decode(line).err)
    THEN "final" ELSE "scan"

PcAfterLine(line) ==
    IF HasDataPrefix(line) /\ IsDoneToken(line) THEN "final" ELSE "scan"

\* choices[0].delta is a map: lines 228-230
HasDeltaMap(chunk) == chunk.choices.kind = "delta"

\* delta["content"].(string): lines 231-233
ContentOf(chunk) ==
    IF HasDeltaMap(chunk) /\ chunk.choices.hasContent
    THEN chunk.choices.content ELSE <<>>

\* lines 235: the event is written only inside the delta branch
ShouldEmitAnyMode(streaming, chunk) == HasDeltaMap(chunk)

ShouldEmit(streaming, chunk) == streaming /\ HasDeltaMap(chunk)

\* lines 241-245: reconstructedChunk["id"]
ReconstructedId(chunk) ==
    IF IsString(chunk.id) THEN chunk.id
    ELSE IF IsString(chunk.trace_id) THEN chunk.trace_id
    ELSE chunk.id

\* lines 250-254: call["id"] = reconstructedChunk["id"]; a key the map
\* does not hold reads as nil and is stored as null
OverwriteFirstCall(calls, id) ==
    IF Len(calls) > 0 /\ calls[1] # NonObject
    THEN [calls EXCEPT ![1] = IF id = Absent THEN Null ELSE id]
    ELSE calls

\* lines 236-254
Reconstruct(chunk, m) ==
    [chunk EXCEPT
        !.id = ReconstructedId(chunk),
        !.object = ChunkObject,
        !.model = m,
        !.tool_calls = OverwriteFirstCall(@, ReconstructedId(chunk))]

\* an entry of the response body; line is the upstream line it was made
\* from (0 for the aggregated document)
Written(kind, doc, line) == [kind |-> kind, doc |-> doc, line |-> line]

\* lines 272-282: the first choice's delta key, if there is one, becomes
\* the message
Aggregate(first, content) ==
    IF first.choices.kind \in {"delta", "deltanonmap"}
    THEN [first EXCEPT !.choices = Choice("message", TRUE, content),
                       !.tool_calls = <<>>]
    ELSE first

\* lines 271, 284-285: what finalization writes
FinalOutputEvenIfNil(streaming, first, content) ==
    IF ~streaming
    THEN <<Written("json", Aggregate(first, content), 0)>>
    ELSE <<>>

FinalOutputStreamingOnly(streaming, first, content) ==
    IF streaming /\ first # NilChunk
    THEN <<Written("json", Aggregate(first, content), 0)>>
    ELSE <<>>

FinalOutput(streaming, first, content) ==
    IF ~streaming /\ first # NilChunk
    THEN <<Written("json", Aggregate(first, content), 0)>>
    ELSE <<>>

---------------------------------------------------------------------------
(* The client response head.  w.Header() is reduced to its Content-Type;   *)
(* WriteHeader fixes the status and takes the snapshot of the header that  *)
(* goes on the wire, so a header set afterwards is not sent.               *)

NewResponseWriter ==
    [header |-> Absent, wroteHeader |-> FALSE, status |-> 0,
     contentType |-> Absent]

\* w.Header().Set("Content-Type", v)
HeaderSet(rw, v) == [rw EXCEPT !.header = v]

\* w.Header().Add("Content-Type", v) for an upstream header that may be
\* missing: handlers.go 126-130
HeaderAdd(rw, v) ==
    IF v = Absent \/ rw.header # Absent THEN rw ELSE [rw EXCEPT !.header = v]

\* w.WriteHeader(code); a second call is ignored
WriteHeader(rw, code) ==
    IF rw.wroteHeader THEN rw
    ELSE [rw EXCEPT !.wroteHeader = TRUE, !.status = code,
                    !.contentType = rw.header]

\* the first w.Write, and the return of a handler that wrote nothing, send
\* the head with status 200
Write(rw) == WriteHeader(rw, 200)

\* http.Error(w, msg, code)
HttpError(rw, code) ==
    WriteHeader(HeaderSet(rw, "text/plain; charset=utf-8"), code)

---------------------------------------------------------------------------
(* Server.mu: sync.RWMutex.  pending is a writer that has called Lock and  *)
(* waits for the readers to leave; from then on RLock blocks.              *)

MuFree == [readers |-> 0, writer |-> FALSE, pending |-> FALSE]

CanRLock(m) == ~m.writer /\ ~m.pending

RLock(m) == [m EXCEPT !.readers = @ + 1]

RUnlock(m) == [m EXCEPT !.readers = @ - 1]

---------------------------------------------------------------------------
(* State of the parts of the server that are at rest *)

NoConfig == [Port |-> 0, Providers |-> <<>>]

NoSnap == [find |-> NoConfig, strip |-> NoConfig]

\* ModelsHandler before it is called: providers is the slice the range
\* statement iterates, i the next index into it, data the models slice;
\* cfg remembers the configuration the slice was taken from
\* sent is the entry of data a client sent back as a model (0 = none)
ModelsIdle ==
    [pc |-> "idle", providers |-> <<>>, i |-> 0, data |-> <<>>,
     cfg |-> NoConfig, contentType |-> Absent, status |-> 0, sent |-> 0]

\* err: the error of lines 93, 103 or 118, "nil" if there is none
NoResponse == [StatusCode |-> 0, contentType |-> Absent, err |-> "nil"]

\* served: the reload requests answered before this one
ReloadIdle ==
    [pc |-> "idle", method |-> "", status |-> 0, err |-> NoError,
     providers |-> 0, served |-> 0]

NoRequest ==
    [body |-> [kind |-> "none", model |-> [t |-> "absent", s |-> <<>>],
               stream |-> "absent", messages |-> "absent",
               extra |-> [t |-> "absent", big |-> FALSE, n |-> 0]],
     header |-> [n \in {"Authorization", "X-Trace"} |-> <<>>],
     query |-> ""]

\* what loadConfig returns: kind "ok" with the parsed configuration, or
\* kind "unreadable" / "unparseable" (config.go 48-56)
File(kind, cfg) == [kind |-> kind, cfg |-> cfg]

---------------------------------------------------------------------------
(* The inbound request and the upstream call: handlers.go 45-118.          *)
(* The JSON body is a record of the keys that matter: model and stream,    *)
(* which the gateway rewrites, messages, and extra, a key the gateway does *)
(* not know.  A JSON value is a record [t, big, n]: its type t and, for a  *)
(* number, the integer 2^53 * (IF big THEN 1 ELSE 0) + n.                  *)

JValue(t, big, n) == [t |-> t, big |-> big, n |-> n]

JAbsent == JValue("absent", FALSE, 0)

JString == JValue("string", FALSE, 0)

JNumber(big, n) == JValue("number", big, n)

\* the model key: type and, for a string, its characters
JModel(t, s) == [t |-> t, s |-> s]

\* kind: "unreadable" (io.ReadAll fails), "invalid" (not JSON),
\* "nonobject" (a JSON array, string, number or boolean), "null", "object";
\* stream is the JSON text of the stream key or "absent"
Body(kind, model, stream, messages, extra) ==
    [kind |-> kind, model |-> model, stream |-> stream,
     messages |-> messages, extra |-> extra]

\* the nil map: what a body that did not decode into a map leaves
NilMap == Body("nil", JModel("absent", <<>>), "absent", "absent", JAbsent)

\* encoding/json decodes every JSON number into a float64, which holds the
\* integers from 2^53 to 2^54 in steps of 2, ties going to the even
\* mantissa
Float64(v) ==
    IF v.t = "number" /\ v.big /\ v.n % 2 = 1
    THEN [v EXCEPT !.n = IF (v.n \div 2) % 2 = 0 THEN v.n - 1 ELSE v.n + 1]
    ELSE v

\* json.Unmarshal(body, &requestBody): handlers.go 56-61
Unmarshal(body) ==
    IF body.kind \in {"invalid", "nonobject"} THEN [err |-> TRUE, map |-> NilMap]
    ELSE IF body.kind = "null" THEN [err |-> FALSE, map |-> NilMap]
    ELSE [err |-> FALSE,
          map |-> [body EXCEPT !.kind = "map", !.extra = Float64(body.extra)]]

\* the first 400 of ForwardRequest, if any: handlers.go 48-68
ReadError(body) ==
    IF body.kind = "unreadable" THEN "Failed to read request body"
    ELSE IF Unmarshal(body).err THEN "Failed to parse request body"
    ELSE IF Unmarshal(body).map.model.t # "string" THEN "Model not specified"
    ELSE "nil"

\* requestBody["stream"].(bool): handlers.go 80
ClientRequestedStreamTruthy(m) == m.stream \in {"true", "\"true\""}

ClientRequestedStream(m) == m.stream = "true"

\* requestBody after lines 83-84, which json.Marshal writes out
Rewritten(m, actual) ==
    [m EXCEPT !.model = JModel("string", actual), !.stream = "true"]

\* a header value; Authorization values are scheme + credential
HeaderValue(scheme, cred) == [scheme |-> scheme, cred |-> cred]

HeaderNames == {"Authorization", "X-Trace"}

EmptyHeader == [n \in HeaderNames |-> <<>>]

\* the loop of req.Header.Add: handlers.go 110-114
AddAll(dst, src) == [n \in HeaderNames |-> dst[n] \o src[n]]

\* req.Header.Set("Authorization", "Bearer "+provider.Secret): line 115
OutboundHeaderAddAuth(h, secret) ==
    [AddAll(EmptyHeader, h) EXCEPT
        !["Authorization"] = @ \o <<HeaderValue("Bearer ", secret)>>]

OutboundHeader(h, secret) ==
    [AddAll(EmptyHeader, h) EXCEPT
        !["Authorization"] = <<HeaderValue("Bearer ", secret)>>]

Request(body, header, query) ==
    [body |-> body, header |-> header, query |-> query]

\* the request client.Do sends: handlers.go 86-118
Call(r, p, actual) ==
    [url |-> p.URL, path |-> "/chat/completions", query |-> r.query,
     header |-> OutboundHeader(r.header, p.Secret),
     body |-> Rewritten(Unmarshal(r.body).map, actual)]

ClientModel == <<"[", "a", "]", "a">>

DefaultConfig == [Port |-> 8080, Providers |-> <<MkProvider(<<"a">>)>>]

\* the request whose response HandleStreamResponse reshapes
DefaultRequest(streaming) ==
    Request(Body("object", JModel("string", ClientModel),
                 IF streaming THEN "true" ELSE "false", "msgs", JAbsent),
            EmptyHeader, "")

\* the state on entry to HandleStreamResponse (handlers.go 132)
Init ==
    /\ config = DefaultConfig
    /\ called = "none"
    /\ provider = 1
    /\ actualModelName = <<"a">>
    /\ modelName = ClientModel
    /\ isClientStreaming \in BOOLEAN
    /\ request = DefaultRequest(isClientStreaming)
    /\ outbound = <<Call(request, DefaultConfig.Providers[1], <<"a">>)>>
    /\ resp = [StatusCode |-> 200, contentType |-> "text/event-stream",
               err |-> "nil"]
    /\ w = HeaderAdd(NewResponseWriter, resp.contentType)
    /\ snap = [find |-> DefaultConfig, strip |-> DefaultConfig]
    /\ fpc = "handle"
    /\ mu = MuFree
    /\ reload = ReloadIdle
    /\ configFile = File("ok", DefaultConfig)
    /\ models = ModelsIdle
    /\ ctx = "live"
    /\ upstream \in SeqsUpTo(Lines, MaxLines)
    /\ pos = 0
    /\ pc = "start"
    /\ fullContent = <<>>
    /\ firstResponse = NilChunk
    /\ chunkCount = 0
    /\ out = <<>>
    /\ flushed = 0
    /\ sawDone = FALSE

\* lines 192-203
Begin ==
    /\ pc = "start"
    /\ pc' = "scan"
    /\ w' = IF isClientStreaming
            THEN HeaderSet(WriteHeader(w, resp.StatusCode),
                           "text/event-stream")
            ELSE w
    /\ UNCHANGED <<isClientStreaming, upstream, pos, fullContent,
                   firstResponse, chunkCount, out, flushed, sawDone>>
    /\ UNCHANGED <<routerVars, modelName, serverVars>>

\* lines 205-265: one iteration of the scan loop
\* a read of the body fails once the request's context has expired
\* (handlers.go 103: the upstream request carries r.Context())
ScanLine ==
    /\ pc = "scan"
    /\ ctx = "live"
    /\ ScannerScan(upstream, pos)
    /\ LET line == upstream[pos + 1]
           d == Decode(line)
       IN  /\ pos' = pos + 1
           /\ pc' = PcAfterLine(line)
           /\ IF ~HasDataPrefix(line)
              THEN UNCHANGED <<fullContent, firstResponse, chunkCount, out,
                               flushed, sawDone>>
              ELSE IF IsDoneToken(line)
              THEN /\ sawDone' = TRUE
                   /\ out' = IF isClientStreaming
                             THEN Append(out, Written("done", NilChunk, pos + 1))
                             ELSE out
                   /\ flushed' = IF isClientStreaming THEN Len(out') ELSE flushed
                   /\ UNCHANGED <<fullContent, firstResponse, chunkCount>>
              ELSE IF d.err
              THEN UNCHANGED <<fullContent, firstResponse, chunkCount, out,
                               flushed, sawDone>>
              ELSE /\ chunkCount' = chunkCount + 1
                   /\ firstResponse' =
                        IF firstResponse # NilChunk THEN firstResponse
                        ELSE IF ShouldEmit(isClientStreaming, d.chunk)
                        THEN WithToolCalls(d.chunk,
                                 Reconstruct(d.chunk, modelName).tool_calls)
                        ELSE d.chunk
                   /\ fullContent' = fullContent \o ContentOf(d.chunk)
                   /\ IF ShouldEmit(isClientStreaming, d.chunk)
                      THEN /\ out' = Append(out,
                                  Written("event", Reconstruct(d.chunk, modelName),
                                          pos + 1))
                           /\ flushed' = Len(out')
                      ELSE UNCHANGED <<out, flushed>>
                   /\ UNCHANGED sawDone
    /\ UNCHANGED <<isClientStreaming, upstream>>
    /\ UNCHANGED <<routerVars, modelName, w, serverVars>>

\* line 205: scanner.Scan() returns false when the body has closed
ScanEOF ==
    /\ pc = "scan"
    /\ ~ScannerScan(upstream, pos) \/ ctx = "expired"
    /\ pc' = "final"
    /\ UNCHANGED <<isClientStreaming, upstream, pos, fullContent,
                   firstResponse, chunkCount, out, flushed, sawDone>>
    /\ UNCHANGED <<routerVars, modelName, w, serverVars>>

\* lines 267-293 and the return of ForwardRequest, after which the server
\* sends the head if no write did
Finalize ==
    /\ pc = "final"
    /\ pc' = "done"
    /\ out' = out \o FinalOutput(isClientStreaming, firstResponse, fullContent)
    /\ w' = IF FinalOutput(isClientStreaming, firstResponse, fullContent) # <<>>
            THEN Write(HeaderSet(w, "application/json"))
            ELSE Write(w)
    /\ fpc' = "done"
    /\ UNCHANGED <<isClientStreaming, upstream, pos, fullContent,
                   firstResponse, chunkCount, flushed, sawDone>>
    /\ UNCHANGED <<routerVars, modelName>>
    /\ UNCHANGED <<mu, request, outbound, resp, snap, reload, configFile,
                   models, ctx>>

Next == Begin \/ ScanLine \/ ScanEOF \/ Finalize

Spec == Init /\ [][Next]_vars

\* the handler's goroutine keeps running until it returns
---------------------------------------------------------------------------
(* HandleStreamResponse on chunks that carry tool calls *)

ToolCalls ==
    {<<>>, <<"c1">>, <<NonObject>>, <<"c1", "c2">>, <<Absent, "c2">>,
     <<NonObject, "c2">>}

ToolChunks ==
    {WithToolCalls(MkChunk(i[1], i[2], ChunkObject,
                           Choice("delta", FALSE, <<>>)), tc) :
        i \in {<<"i1", Absent>>, <<Absent, "t1">>, <<Absent, Absent>>,
               <<NonString, Absent>>},
        tc \in ToolCalls}

ToolLines == {Line("done", NilChunk)} \cup {Line("chunk", c) : c \in ToolChunks}

ToolInit ==
    /\ config = DefaultConfig
    /\ called = "none"
    /\ provider = 1
    /\ actualModelName = <<"a">>
    /\ modelName = ClientModel
    /\ isClientStreaming \in BOOLEAN
    /\ request = DefaultRequest(isClientStreaming)
    /\ outbound = <<Call(request, DefaultConfig.Providers[1], <<"a">>)>>
    /\ resp = [StatusCode |-> 200, contentType |-> "text/event-stream",
               err |-> "nil"]
    /\ w = HeaderAdd(NewResponseWriter, resp.contentType)
    /\ snap = [find |-> DefaultConfig, strip |-> DefaultConfig]
    /\ fpc = "handle"
    /\ mu = MuFree
    /\ reload = ReloadIdle
    /\ configFile = File("ok", DefaultConfig)
    /\ models = ModelsIdle
    /\ ctx = "live"
    /\ upstream \in SeqsUpTo(ToolLines, MaxToolLines)
    /\ pos = 0
    /\ pc = "start"
    /\ fullContent = <<>>
    /\ firstResponse = NilChunk
    /\ chunkCount = 0
    /\ out = <<>>
    /\ flushed = 0
    /\ sawDone = FALSE

ToolSpec == ToolInit /\ [][Next]_vars

FairSpec == Spec /\ WF_vars(Next)

---------------------------------------------------------------------------
(* Registry lookups on an installed configuration *)

\* every identifier of up to 4 characters, and the longer ones that open
\* with a bracket (any other is rejected at modelName[0] like a short one)
Identifiers ==
    {m \in SeqsUpTo(IdChars, MaxIdLen) : Len(m) <= 4 \/ m[1] = "["}

RouterInit ==
    /\ config \in InstallableConfigs
    /\ called = "none"
    /\ provider = 0
    /\ actualModelName = <<>>
    /\ modelName = <<>>
    /\ isClientStreaming = FALSE
    /\ upstream = <<>>
    /\ pos = 0
    /\ pc = "idle"
    /\ fullContent = <<>>
    /\ firstResponse = NilChunk
    /\ chunkCount = 0
    /\ out = <<>>
    /\ flushed = 0
    /\ sawDone = FALSE
    /\ mu = MuFree
    /\ fpc = "idle"
    /\ request = NoRequest
    /\ outbound = <<>>
    /\ resp = NoResponse
    /\ w = NewResponseWriter
    /\ snap = NoSnap
    /\ reload = ReloadIdle
    /\ configFile = File("ok", config)
    /\ models = ModelsIdle
    /\ ctx = "live"

CallFindProvider ==
    /\ called = "none"
    /\ \E m \in Identifiers :
        /\ called' = "FindProvider"
        /\ modelName' = m
        /\ provider' = FindProvider(config, m)
        /\ actualModelName' = <<>>
        /\ UNCHANGED <<config, reshaperVars, w, serverVars>>

CallGetActualModelName ==
    /\ called = "none"
    /\ \E m \in Identifiers :
        /\ called' = "GetActualModelName"
        /\ modelName' = m
        /\ provider' = 0
        /\ actualModelName' = GetActualModelName(config, m)
        /\ UNCHANGED <<config, reshaperVars, w, serverVars>>

RouterNext == CallFindProvider \/ CallGetActualModelName

RouterSpec == RouterInit /\ [][RouterNext]_vars

---------------------------------------------------------------------------
(* ForwardRequest: src/server/handlers.go 45-133 *)

\* heads and bodies an upstream may answer with
ResponseHeads ==
    {[StatusCode |-> c, contentType |-> t, err |-> "nil"] :
        c \in {200, 401},
        t \in {Absent, "text/event-stream", "application/json"}}

HelloChunk ==
    Line("chunk", MkChunk("i1", Absent, ChunkObject,
                          Choice("delta", TRUE, <<"H", "e">>)))

ForwardBodies ==
    {<<>>, <<HelloChunk, Line("done", NilChunk)>>, <<HelloChunk, HelloChunk>>}

\* how client.Do can end: the request cannot be built (line 104), the
\* transport fails (line 119), or a response arrives
Outcomes == {"build_error", "transport_error", "response"}

\* lines 48-68
FwdRead ==
    /\ fpc = "read"
    /\ IF ReadError(request.body) # "nil"
       THEN /\ w' = HttpError(w, 400)
            /\ fpc' = "done"
            /\ UNCHANGED modelName
       ELSE /\ modelName' = Unmarshal(request.body).map.model.s
            /\ fpc' = "rlock"
            /\ UNCHANGED w
    /\ UNCHANGED <<config, called, provider, actualModelName, reshaperVars>>
    /\ UNCHANGED <<mu, request, outbound, resp, snap, reload, configFile,
                   models, ctx>>

\* line 70
FwdRLock ==
    /\ fpc = "rlock"
    /\ CanRLock(mu)
    /\ mu' = RLock(mu)
    /\ fpc' = "find"
    /\ UNCHANGED <<routerVars, modelName, reshaperVars, w>>
    /\ UNCHANGED <<request, outbound, resp, snap, reload, configFile, models, ctx>>

\* line 71: FindProvider takes and releases the read lock itself
\* (types.go 249-250) while the caller holds it
FwdFindProvider ==
    /\ fpc = "find"
    /\ CanRLock(mu)
    /\ provider' = FindProvider(config, modelName)
    /\ snap' = [snap EXCEPT !.find = config]
    /\ fpc' = "runlock"
    /\ UNCHANGED <<config, called, actualModelName, modelName, reshaperVars,
                   w>>
    /\ UNCHANGED <<mu, request, outbound, resp, reload, configFile, models, ctx>>

\* lines 72-78
FwdRUnlock ==
    /\ fpc = "runlock"
    /\ mu' = RUnlock(mu)
    /\ IF provider = 0
       THEN w' = HttpError(w, 400) /\ fpc' = "done"
       ELSE UNCHANGED w /\ fpc' = "strip"
    /\ UNCHANGED <<routerVars, modelName, reshaperVars>>
    /\ UNCHANGED <<request, outbound, resp, snap, reload, configFile, models, ctx>>

\* line 82: GetActualModelName looks the provider up again, under a read
\* lock of its own (types.go 263-268)
FwdGetActualModelName ==
    /\ fpc = "strip"
    /\ CanRLock(mu)
    /\ actualModelName' = GetActualModelName(config, modelName)
    /\ snap' = [snap EXCEPT !.strip = config]
    /\ fpc' = "send"
    /\ UNCHANGED <<config, called, provider, modelName, reshaperVars, w>>
    /\ UNCHANGED <<mu, request, outbound, resp, reload, configFile, models, ctx>>

\* provider points into the Providers slice FindProvider read
ResolvedProvider == snap.find.Providers[provider]

\* the error, if any, of url.Parse (line 93), http.NewRequestWithContext
\* (line 103) or client.Do (line 118) when the environment decides o
SendError(o, p) ==
    IF ~URLParses(p.URL) THEN "invalid_url"
    ELSE IF o = "response" THEN "nil"
    ELSE o

\* the requests handed to client.Do (line 118): none if an earlier step
\* failed, else one
AttemptsWithRetry(o, p, call) ==
    IF SendError(o, p) \in {"invalid_url", "build_error"} THEN <<>>
    ELSE IF SendError(o, p) = "transport_error" THEN <<call, call>>
    ELSE <<call>>

Attempts(o, p, call) ==
    IF SendError(o, p) \in {"invalid_url", "build_error"} THEN <<>>
    ELSE <<call>>

\* lines 80-132: the 500 exits and the call of HandleStreamResponse
FwdSend ==
    /\ fpc = "send"
    /\ \E o \in Outcomes, head \in ResponseHeads, body \in ForwardBodies :
        LET call == Call(request, ResolvedProvider, actualModelName)
            err == SendError(o, ResolvedProvider)
        IN  /\ ctx = "expired" => o # "response"
            /\ outbound' = outbound \o Attempts(o, ResolvedProvider, call)
            /\ IF err # "nil"
               THEN /\ resp' = [resp EXCEPT !.err = err]
                    /\ w' = HttpError(w, 500)
                    /\ fpc' = "done"
                    /\ UNCHANGED <<isClientStreaming, upstream, pc>>
               ELSE /\ resp' = head
                    /\ w' = HeaderAdd(w, head.contentType)
                    /\ isClientStreaming' =
                           ClientRequestedStream(Unmarshal(request.body).map)
                    /\ upstream' = body
                    /\ pc' = "start"
                    /\ fpc' = "handle"
    /\ UNCHANGED <<routerVars, modelName, pos, fullContent, firstResponse,
                   chunkCount, out, flushed, sawDone>>
    /\ UNCHANGED <<mu, request, snap, reload, configFile, models, ctx>>

---------------------------------------------------------------------------
(* ConfigReloadHandler: src/server/handlers.go 135-175 *)

Methods == {"POST", "GET"}

\* what lines 146-174 make of the file and the installed configuration:
\* the configuration to install, the status and the error reported
ReloadedLoadError400(file, cur) ==
    IF file.kind # "ok"
    THEN [config |-> cur, status |-> 400, err |-> Err(file.kind, 0)]
    ELSE IF Validate(file.cfg) # NoError
    THEN [config |-> cur, status |-> 400, err |-> Validate(file.cfg)]
    ELSE [config |-> file.cfg, status |-> 200, err |-> NoError]

ReloadedInstallFirst(file, cur) ==
    IF file.kind # "ok"
    THEN [config |-> cur, status |-> 500, err |-> Err(file.kind, 0)]
    ELSE IF Validate(file.cfg) # NoError
    THEN [config |-> file.cfg, status |-> 400, err |-> Validate(file.cfg)]
    ELSE [config |-> file.cfg, status |-> 200, err |-> NoError]

Reloaded(file, cur) ==
    IF file.kind # "ok"
    THEN [config |-> cur, status |-> 500, err |-> Err(file.kind, 0)]
    ELSE IF Validate(file.cfg) # NoError
    THEN [config |-> cur, status |-> 400, err |-> Validate(file.cfg)]
    ELSE [config |-> file.cfg, status |-> 200, err |-> NoError]

\* lines 136-141
ReloadBegin ==
    /\ reload.pc = "start"
    /\ \E m \in Methods :
        reload' = IF m # "POST"
                  THEN [reload EXCEPT !.pc = "done", !.method = m,
                                      !.status = 405]
                  ELSE [reload EXCEPT !.pc = "lock", !.method = m]
    /\ UNCHANGED <<routerVars, modelName, reshaperVars, w>>
    /\ UNCHANGED <<mu, fpc, request, outbound, resp, snap, configFile, models, ctx>>

\* line 143, first half of Lock: the writer announces itself
ReloadLock ==
    /\ reload.pc = "lock"
    /\ ~mu.writer
    /\ mu' = [mu EXCEPT !.pending = TRUE]
    /\ reload' = [reload EXCEPT !.pc = "wait"]
    /\ UNCHANGED <<routerVars, modelName, reshaperVars, w>>
    /\ UNCHANGED <<fpc, request, outbound, resp, snap, configFile, models, ctx>>

\* line 143, second half of Lock: the readers have left
ReloadAcquire ==
    /\ reload.pc = "wait"
    /\ mu.readers = 0
    /\ mu' = [mu EXCEPT !.pending = FALSE, !.writer = TRUE]
    /\ reload' = [reload EXCEPT !.pc = "load"]
    /\ UNCHANGED <<routerVars, modelName, reshaperVars, w>>
    /\ UNCHANGED <<fpc, request, outbound, resp, snap, configFile, models, ctx>>

\* lines 146-175, with the deferred Unlock
ReloadInstall ==
    /\ reload.pc = "load"
    /\ LET r == Reloaded(configFile, config) IN
        /\ config' = r.config
        /\ reload' = [reload EXCEPT !.pc = "done", !.status = r.status,
                                    !.err = r.err,
                                    !.providers = Len(r.config.Providers)]
    /\ mu' = [mu EXCEPT !.writer = FALSE]
    /\ UNCHANGED <<called, provider, actualModelName, modelName,
                   reshaperVars, w>>
    /\ UNCHANGED <<fpc, request, outbound, resp, snap, configFile, models, ctx>>

---------------------------------------------------------------------------
(* Specifications of the handlers *)

\* HandleStreamResponse has not been called
ReshaperIdle ==
    /\ isClientStreaming = FALSE
    /\ upstream = <<>>
    /\ pos = 0
    /\ pc = "idle"
    /\ fullContent = <<>>
    /\ firstResponse = NilChunk
    /\ chunkCount = 0
    /\ out = <<>>
    /\ flushed = 0
    /\ sawDone = FALSE

\* ForwardRequest has not run yet
ForwardIdle ==
    /\ called = "none"
    /\ provider = 0
    /\ actualModelName = <<>>
    /\ modelName = <<>>
    /\ outbound = <<>>
    /\ resp = NoResponse
    /\ w = NewResponseWriter
    /\ snap = NoSnap
    /\ mu = MuFree
    /\ ctx = "live"

---------------------------------------------------------------------------
(* A reload on its own: every file loadConfig can find *)

Ports == {0, 1, 65535, 65536}

ProviderKinds ==
    {[Name |-> n, URL |-> u, Secret |-> k, Models |-> ms] :
        n \in {<<>>, <<"a">>},
        u \in {"", ":bad", "https://x"},
        k \in {"", "s"},
        ms \in {<< >>, << <<"a">> >>, << <<"a">>, << >> >>}}

\* every port with at most one provider, and every list of providers
\* with the port 1
LoadResults ==
    {File("unreadable", NoConfig), File("unparseable", NoConfig)}
    \cup {File("ok", [Port |-> p, Providers |-> ps]) :
            p \in Ports, ps \in SeqsUpTo(ProviderKinds, 1)}
    \cup {File("ok", [Port |-> 1, Providers |-> ps]) :
            ps \in SeqsUpTo(ProviderKinds, MaxProviders)}

ReloadInit ==
    /\ config = DefaultConfig
    /\ configFile \in LoadResults
    /\ reload = [ReloadIdle EXCEPT !.pc = "start"]
    /\ ForwardIdle
    /\ models = ModelsIdle
    /\ fpc = "idle"
    /\ request = NoRequest
    /\ ReshaperIdle

ReloadNext == ReloadBegin \/ ReloadLock \/ ReloadAcquire \/ ReloadInstall

ReloadSpec == ReloadInit /\ [][ReloadNext]_vars

---------------------------------------------------------------------------
(* Startup followed by reload after reload, the file changing in between *)

ReloadsFiles ==
    {File("unreadable", NoConfig), File("unparseable", NoConfig)}
    \cup {File("ok", [Port |-> p, Providers |-> ps]) :
            p \in Ports, ps \in SeqsUpTo(ProviderKinds, 1)}

\* main: the server starts only with a file that loads and passes Validate
\* (config_test.go 257-266)
Started(file) == file.kind = "ok" /\ Validate(file.cfg) = NoError

ReloadsInit ==
    /\ configFile \in ReloadsFiles
    /\ Started(configFile)
    /\ config = configFile.cfg
    /\ reload = [ReloadIdle EXCEPT !.pc = "start"]
    /\ ForwardIdle
    /\ models = ModelsIdle
    /\ fpc = "idle"
    /\ request = NoRequest
    /\ ReshaperIdle

\* the handler has returned; the file is edited and the next reload
\* request arrives
ReloadAgain ==
    /\ reload.pc = "done"
    /\ reload.served < MaxReloads
    /\ \E f \in ReloadsFiles :
        /\ configFile' = f
        /\ reload' = [ReloadIdle EXCEPT !.pc = "start",
                                        !.served = reload.served + 1]
    /\ UNCHANGED <<routerVars, modelName, reshaperVars, w>>
    /\ UNCHANGED <<mu, fpc, request, outbound, resp, snap, models, ctx>>

ReloadsNext ==
    \/ ReloadBegin \/ ReloadLock \/ ReloadAcquire \/ ReloadInstall
    \/ ReloadAgain

ReloadsSpec == ReloadsInit /\ [][ReloadsNext]_vars

---------------------------------------------------------------------------
(* One chat-completion request on its own, from arrival to the last byte *)

ProviderA ==
    [Name |-> <<"a">>, URL |-> "https://a", Secret |-> "sa",
     Models |-> << <<"a">> >>]

ProviderB ==
    [Name |-> <<"b">>, URL |-> "https://b", Secret |-> "sb",
     Models |-> << <<"a">> >>]

ForwardConfig == [Port |-> 8080, Providers |-> <<ProviderA, ProviderB>>]

ModelKeys ==
    {JModel("absent", <<>>), JModel("number", <<>>)}
    \cup {JModel("string", m) :
            m \in {<<"[", "a", "]", "a">>, <<"[", "b", "]", "a">>,
                   <<"[", "c", "]", "a">>, <<"a">>}}

StreamKeys == {"absent", "true", "false", "\"true\""}

ExtraKeys ==
    {JAbsent, JString, JNumber(FALSE, 7), JNumber(TRUE, 0), JNumber(TRUE, 1)}

Bodies ==
    {Body(k, JModel("absent", <<>>), "absent", "absent", JAbsent) :
        k \in {"unreadable", "invalid", "nonobject", "null"}}
    \cup {Body("object", m, st, "msgs", x) :
            m \in ModelKeys, st \in StreamKeys, x \in ExtraKeys}

ClientKey == HeaderValue("Bearer ", "client")

Headers ==
    {[n \in HeaderNames |->
        IF n = "Authorization" THEN a ELSE t] :
        a \in {<<>>, <<ClientKey>>, <<ClientKey, HeaderValue("Basic ", "c2")>>},
        t \in {<<>>, <<HeaderValue("", "t1")>>}}

Queries == {"", "a=1"}

ForwardRequests ==
    {Request(b, h, q) : b \in Bodies, h \in Headers, q \in Queries}

ForwardInit ==
    /\ config = ForwardConfig
    /\ configFile = File("ok", config)
    /\ reload = ReloadIdle
    /\ request \in ForwardRequests
    /\ fpc = "read"
    /\ ForwardIdle
    /\ models = ModelsIdle
    /\ ReshaperIdle

ForwardNext ==
    \/ FwdRead \/ FwdRLock \/ FwdFindProvider \/ FwdRUnlock
    \/ FwdGetActualModelName \/ FwdSend
    \/ Begin \/ ScanLine \/ ScanEOF \/ Finalize

ForwardSpec == ForwardInit /\ [][ForwardNext]_vars

---------------------------------------------------------------------------
(* One chat-completion request and one reload running concurrently *)

ProviderA2 == [ProviderA EXCEPT !.URL = "https://a2", !.Secret = "sa2"]

ServerConfigs ==
    {[Port |-> 8080, Providers |-> ps] :
        ps \in {<<ProviderA>>, <<ProviderA2>>, <<ProviderB>>,
                <<ProviderB, ProviderA>>}}

ServerFiles ==
    {File("ok", c) : c \in ServerConfigs}
    \cup {File("ok", NoConfig), File("unreadable", NoConfig)}

ServerRequests ==
    {Request(Body("object", JModel("string", m), st, "msgs", JAbsent),
             EmptyHeader, "") :
        m \in {<<"[", "a", "]", "a">>, <<"[", "b", "]", "a">>},
        st \in {"true", "absent"}}

ServerInit ==
    /\ config \in ServerConfigs
    /\ configFile \in ServerFiles
    /\ reload = [ReloadIdle EXCEPT !.pc = "start"]
    /\ request \in ServerRequests
    /\ fpc = "read"
    /\ ForwardIdle
    /\ models = ModelsIdle
    /\ ReshaperIdle

ServerNext ==
    \/ FwdRead \/ FwdRLock \/ FwdFindProvider \/ FwdRUnlock
    \/ FwdGetActualModelName \/ FwdSend
    \/ ReloadBegin \/ ReloadLock \/ ReloadAcquire \/ ReloadInstall

ServerSpec == ServerInit /\ [][ServerNext]_vars

---------------------------------------------------------------------------
(* The chat request under the deadline of timeoutMiddleware:
   src/server/server.go 24-33, 45 *)

\* the deadline passes while ForwardRequest is on its way to the upstream
\* call, waits for the response, or reads the body
Timeout ==
    /\ ctx = "live"
    /\ \/ fpc \in {"read", "rlock", "find", "runlock", "strip", "send"}
       \/ fpc = "handle" /\ pc \in {"start", "scan"}
    /\ ctx' = "expired"
    /\ UNCHANGED <<routerVars, modelName, reshaperVars, w>>
    /\ UNCHANGED <<mu, fpc, request, outbound, resp, snap, reload, configFile,
                   models>>

TimeoutInit ==
    /\ config = ForwardConfig
    /\ configFile = File("ok", config)
    /\ reload = ReloadIdle
    /\ request \in ServerRequests
    /\ fpc = "read"
    /\ ForwardIdle
    /\ models = ModelsIdle
    /\ ReshaperIdle

TimeoutNext == ForwardNext \/ Timeout

TimeoutSpec == TimeoutInit /\ [][TimeoutNext]_vars

---------------------------------------------------------------------------
(* ModelsHandler: src/server/handlers.go 19-43 *)

QualifiedIdNoClosingBracket(name, model) == <<"[">> \o name \o model

\* line 29
QualifiedId(name, model) == <<"[">> \o name \o <<"]">> \o model

\* lines 27-32: the Model values one provider contributes, in the order of
\* its Models; by and model record where each came from
ModelsOf(p, i) ==
    [j \in 1..Len(p.Models) |->
        [ID |-> QualifiedId(p.Name, p.Models[j]), Object |-> "model",
         by |-> i, model |-> p.Models[j]]]

\* lines 20-22
ModelsRLock ==
    /\ models.pc = "rlock"
    /\ CanRLock(mu)
    /\ mu' = RLock(mu)
    /\ models' = [models EXCEPT !.pc = "range",
                                !.contentType = "application/json"]
    /\ UNCHANGED <<routerVars, modelName, reshaperVars, w>>
    /\ UNCHANGED <<fpc, request, outbound, resp, snap, reload, configFile,
                   ctx>>

\* line 26: the range expression s.config.Providers is evaluated once
ModelsRange ==
    /\ models.pc = "range"
    /\ models' = [models EXCEPT !.pc = "loop", !.providers = config.Providers,
                                !.cfg = config, !.i = 1]
    /\ UNCHANGED <<routerVars, modelName, reshaperVars, w>>
    /\ UNCHANGED <<mu, fpc, request, outbound, resp, snap, reload, configFile,
                   ctx>>

\* lines 26-33: one iteration of the outer loop
ModelsProvider ==
    /\ models.pc = "loop"
    /\ models.i <= Len(models.providers)
    /\ models' = [models EXCEPT
                    !.data = @ \o ModelsOf(models.providers[models.i],
                                           models.i),
                    !.i = @ + 1]
    /\ UNCHANGED <<routerVars, modelName, reshaperVars, w>>
    /\ UNCHANGED <<mu, fpc, request, outbound, resp, snap, reload, configFile,
                   ctx>>

\* lines 35-42 and the deferred RUnlock of line 23
ModelsEncode ==
    /\ models.pc = "loop"
    /\ models.i > Len(models.providers)
    /\ models' = [models EXCEPT !.pc = "done", !.status = 200]
    /\ mu' = RUnlock(mu)
    /\ UNCHANGED <<routerVars, modelName, reshaperVars, w>>
    /\ UNCHANGED <<fpc, request, outbound, resp, snap, reload, configFile,
                   ctx>>

\* a client sends a listed id back as the model of a chat request while
\* the configuration it was listed from is still installed: the two
\* registry reads of ForwardRequest (handlers.go 71, 82; types.go 248-268)
ModelsResolve ==
    /\ models.pc = "done"
    /\ models.sent = 0
    /\ config = models.cfg
    /\ \E k \in 1..Len(models.data) :
        /\ models' = [models EXCEPT !.sent = k]
        /\ called' = "Resolve"
        /\ modelName' = models.data[k].ID
        /\ provider' = FindProvider(config, models.data[k].ID)
        /\ actualModelName' = GetActualModelName(config, models.data[k].ID)
    /\ UNCHANGED <<config, reshaperVars, w>>
    /\ UNCHANGED <<mu, fpc, request, outbound, resp, snap, reload, configFile,
                   ctx>>

ModelLists == {<< <<"a">> >>, << <<"a">>, <<"]", "a">> >>}

ModelsProviders ==
    {[MkProvider(n) EXCEPT !.Models = ms] :
        n \in SeqsUpTo(NameChars, MaxNameLen) \ {<<>>}, ms \in ModelLists}

ModelsConfigs ==
    {[Port |-> 8080, Providers |-> ps] :
        ps \in SeqsUpTo(ModelsProviders, 2) \ {<<>>}}

ModelsFiles ==
    {File("ok", DefaultConfig), File("ok", NoConfig),
     File("unreadable", NoConfig)}

ModelsInit ==
    /\ config \in ModelsConfigs
    /\ configFile \in ModelsFiles
    /\ reload = [ReloadIdle EXCEPT !.pc = "start"]
    /\ models = [ModelsIdle EXCEPT !.pc = "rlock"]
    /\ ForwardIdle
    /\ fpc = "idle"
    /\ request = NoRequest
    /\ ReshaperIdle

ModelsNext ==
    \/ ModelsRLock \/ ModelsRange \/ ModelsProvider \/ ModelsEncode
    \/ ModelsResolve
    \/ ReloadBegin \/ ReloadLock \/ ReloadAcquire \/ ReloadInstall

ModelsSpec == ModelsInit /\ [][ModelsNext]_vars

---------------------------------------------------------------------------
(* One chat request, one /v1/models request and one reload, each served
   by a goroutine of its own (net/http), all on Server.mu *)

LockFiles ==
    {File("ok", [Port |-> 8080, Providers |-> <<ProviderB>>]),
     File("unreadable", NoConfig)}

LockInit ==
    /\ config \in ServerConfigs
    /\ configFile \in LockFiles
    /\ reload = [ReloadIdle EXCEPT !.pc = "start"]
    /\ request \in ServerRequests
    /\ fpc = "read"
    /\ models = [ModelsIdle EXCEPT !.pc = "rlock"]
    /\ ForwardIdle
    /\ ReshaperIdle

ChatStep ==
    \/ FwdRead \/ FwdRLock \/ FwdFindProvider \/ FwdRUnlock
    \/ FwdGetActualModelName \/ FwdSend

ReloadStep == ReloadBegin \/ ReloadLock \/ ReloadAcquire \/ ReloadInstall

ModelsStep == ModelsRLock \/ ModelsRange \/ ModelsProvider \/ ModelsEncode

LockNext == ChatStep \/ ReloadStep \/ ModelsStep

\* a goroutine that can run is run: the scheduler starves none of the
\* three handlers
LockSpec ==
    /\ LockInit
    /\ [][LockNext]_vars
    /\ WF_vars(ChatStep)
    /\ WF_vars(ReloadStep)
    /\ WF_vars(ModelsStep)

---------------------------------------------------------------------------
(* Properties of the registry *)

\* m is "[" + name + "]" followed by at least one further character
IsQualified(name, m) ==
    /\ Len(m) > Len(name) + 2
    /\ SubSeq(m, 1, Len(name) + 2) = <<"[">> \o name \o <<"]">>

ProviderName(i) == config.Providers[i].Name

\* the call that ran resolved to a provider named name and stripped
\* exactly the prefix "[" + name + "]"
RoutesTo(name) ==
    /\ called = "FindProvider" =>
          provider # 0 /\ ProviderName(provider) = name
    /\ called = "GetActualModelName" =>
          <<"[">> \o name \o <<"]">> \o actualModelName = modelName

\* C1 as stated: every identifier [P]M with P a configured provider name and
\* M non-empty resolves to the provider named P and strips to exactly M.
C1_AsStated ==
    called # "none" =>
        \A i \in 1..Len(config.Providers) :
            IsQualified(ProviderName(i), modelName) => RoutesTo(ProviderName(i))

\* C1: an identifier [P]M with P a configured provider name and M non-empty
\* resolves to the provider named P and strips to exactly M, provided no
\* provider earlier in configuration order has another name Q for which the
\* identifier also reads as [Q]M' with M' non-empty.
C1_FirstQualifiedProviderWins ==
    called # "none" =>
        \A i \in 1..Len(config.Providers) :
            (/\ IsQualified(ProviderName(i), modelName)
             /\ \A j \in 1..(i - 1) :
                   \/ ProviderName(j) = ProviderName(i)
                   \/ ~IsQualified(ProviderName(j), modelName))
            => RoutesTo(ProviderName(i))

C1_Witness ==
    /\ called = "GetActualModelName"
    /\ Len(config.Providers) = 2
    /\ ProviderName(1) # ProviderName(2)
    /\ IsQualified(ProviderName(2), modelName)
    /\ ~IsQualified(ProviderName(1), modelName)
    /\ <<"[">> \o ProviderName(2) \o <<"]">> \o actualModelName = modelName

\* C2: an identifier that is not "[" + a configured name + "]" followed by
\* at least one character is not found by FindProvider and is returned
\* unchanged by GetActualModelName.
C2_UnqualifiedIsNotFound ==
    (/\ called # "none"
     /\ \A i \in 1..Len(config.Providers) :
           ~IsQualified(ProviderName(i), modelName))
    => /\ called = "FindProvider" => provider = 0
       /\ called = "GetActualModelName" => actualModelName = modelName

\* the bare "[name]" of a configured provider came back unchanged
C2_Witness ==
    /\ called = "GetActualModelName"
    /\ \E i \in 1..Len(config.Providers) :
          modelName = <<"[">> \o ProviderName(i) \o <<"]">>
    /\ \A i \in 1..Len(config.Providers) :
          ~IsQualified(ProviderName(i), modelName)
    /\ actualModelName = modelName

---------------------------------------------------------------------------
(* Properties of the reshaper *)

\* the lines the scanner has returned so far
Consumed == SubSeq(upstream, 1, pos)

\* the text fragment carried by the first choice's delta of a data: line
DeltaContent(line) ==
    IF /\ line.kind = "chunk"
       /\ line.chunk.choices.kind = "delta"
       /\ line.chunk.choices.hasContent
    THEN line.chunk.choices.content
    ELSE <<>>

RECURSIVE ConcatContent(_)
ConcatContent(ls) ==
    IF ls = <<>> THEN <<>>
    ELSE DeltaContent(Head(ls)) \o ConcatContent(Tail(ls))

RECURSIVE Ascending(_)
Ascending(S) ==
    IF S = {} THEN <<>>
    ELSE LET m == CHOOSE x \in S : \A y \in S : x <= y
         IN  <<m>> \o Ascending(S \ {m})

IsEvent(e) == e.kind = "event"

\* the upstream lines of the streamed events, in the order they were written
EventLines ==
    LET evs == SelectSeq(out, IsEvent)
    IN  [i \in 1..Len(evs) |-> evs[i].line]

\* a data: line whose payload is not [DONE] and fails to decode
Malformed(line) == line.kind \in {"bad", "done_sp"}

\* the normalized id: the upstream id if it has one, else its trace_id
NormalizedId(chunk) ==
    IF IsString(chunk.id) THEN chunk.id
    ELSE IF IsString(chunk.trace_id) THEN chunk.trace_id
    ELSE chunk.id

\* the chunk an entry of the response body was made from
SourceChunk(e) ==
    IF e.kind = "json" THEN firstResponse ELSE upstream[e.line].chunk

NonStreamingDone == pc = "done" /\ ~isClientStreaming

\* C3: for a non-streaming request whose events carried text, the aggregated
\* response has a message whose content is the concatenation, in order, of
\* the delta.content fragments received before [DONE] or stream close.
C3_AggregatedContentIsConcatenation ==
    (/\ NonStreamingDone
     /\ out # <<>>
     /\ ConcatContent(Consumed) # <<>>)
    => /\ out[1].doc.choices.kind = "message"
       /\ out[1].doc.choices.content = ConcatContent(Consumed)

\* C4: every chunk written to the client, streamed or aggregated, has object
\* "chat.completion.chunk" and the same id as every other chunk of the
\* request.
C4_ObjectAndStableId ==
    \A i, j \in 1..Len(out) :
        (out[i].kind \in {"event", "json"} /\ out[j].kind \in {"event", "json"})
        => /\ out[i].doc.object = ChunkObject
           /\ out[i].doc.id = out[j].doc.id

\* C5: a data: frame that fails to decode changes nothing and does not end
\* the loop: the accumulated content is the concatenation over every line
\* consumed, a streaming client has received one event per consumed chunk
\* that has a delta, and a loop that has ended after a malformed frame ended
\* at [DONE] or at the close of the body.
C5_MalformedFrameIsSkipped ==
    /\ fullContent = ConcatContent(Consumed)
    /\ isClientStreaming =>
          EventLines = Ascending({k \in 1..pos :
                                    /\ upstream[k].kind = "chunk"
                                    /\ upstream[k].chunk.choices.kind = "delta"})
    /\ \A k \in 1..pos :
          (Malformed(upstream[k]) /\ pc \in {"final", "done"})
          => \/ pos = Len(upstream)
             \/ upstream[pos].kind = "done"

\* a streamed event was made from a frame that follows a malformed frame
C5_Witness ==
    /\ isClientStreaming
    /\ pos >= 2
    /\ upstream[1].kind = "bad"
    /\ DeltaContent(upstream[2]) # <<>>
    /\ fullContent = DeltaContent(upstream[2])
    /\ Len(out) = 1
    /\ out[1].kind = "event"
    /\ out[1].line = 2

\* C6: a data: line whose trimmed payload is [DONE] ends the stream: no line
\* after it is processed, it adds no content, and a streaming client has
\* been sent the flushed "data: [DONE]" terminator as the last output.
C6_TrimmedDoneTerminates ==
    \A k \in 1..pos :
        upstream[k].kind \in {"done", "done_sp"}
        => /\ pos = k
           /\ pc \in {"final", "done"}
           /\ isClientStreaming =>
                 /\ out # <<>>
                 /\ out[Len(out)].kind = "done"
                 /\ flushed = Len(out)

\* C7: every chunk written to the client, streamed or aggregated, has the
\* client's model string as model and the normalized id of the upstream
\* chunk it was made from as id.
C7_IdentityNormalizedInBothModes ==
    \A i \in 1..Len(out) :
        out[i].kind \in {"event", "json"}
        => /\ out[i].doc.model = modelName
           /\ out[i].doc.id = NormalizedId(SourceChunk(out[i]))

\* C8: for a streaming request the events written correspond one-to-one and
\* in order to the upstream chunks decoded so far, and every one of them
\* has been flushed.
C8_OneEventPerDecodedChunk ==
    isClientStreaming =>
        /\ EventLines = Ascending({k \in 1..pos : upstream[k].kind = "chunk"})
        /\ flushed = Len(out)

\* C9 as stated: a non-streaming request writes nothing before finalization
\* and exactly one JSON object once any event has decoded without error.
C9_AsStated ==
    /\ (~isClientStreaming /\ pc # "done") => out = <<>>
    /\ (/\ NonStreamingDone
        /\ \E k \in 1..pos : upstream[k].kind \in {"chunk", "null"})
       => Len(out) = 1 /\ out[1].kind = "json"

\* C9: a non-streaming request writes nothing before finalization, never
\* more than one JSON object, and exactly one once any event has decoded to
\* a JSON object.
C9_OneDocumentAfterFinalization ==
    /\ (~isClientStreaming /\ pc # "done") => out = <<>>
    /\ NonStreamingDone => Len(out) <= 1
    /\ (/\ NonStreamingDone
        /\ \E k \in 1..pos : upstream[k].kind = "chunk")
       => Len(out) = 1 /\ out[1].kind = "json"

C9_Witness ==
    /\ NonStreamingDone
    /\ pos = 2
    /\ upstream[1].kind = "chunk"
    /\ upstream[2].kind = "chunk"
    /\ Len(out) = 1
    /\ out[1].kind = "json"

\* C10: the reshaper always reaches the end of the handler, and when the
\* body closed without [DONE] the whole body was consumed and a
\* non-streaming client has the aggregated document: the first decoded
\* chunk, its message (if it has one) holding all the text decoded.
C10_CloseWithoutDoneFinalizes ==
    /\ <>(pc = "done")
    /\ [](  (pc = "done" /\ ~sawDone)
            => /\ pos = Len(upstream)
               /\ (/\ ~isClientStreaming
                   /\ \E k \in 1..pos : upstream[k].kind = "chunk")
                  => /\ Len(out) = 1
                     /\ out[1].kind = "json"
                     /\ \E k \in 1..pos :
                           /\ upstream[k].kind = "chunk"
                           /\ \A j \in 1..(k - 1) : upstream[j].kind # "chunk"
                           /\ out[1].doc.id = upstream[k].chunk.id
                     /\ out[1].doc.choices.kind = "message"
                           => out[1].doc.choices.content = ConcatContent(upstream))

C10_Witness ==
    /\ NonStreamingDone
    /\ ~sawDone
    /\ pos = 2
    /\ DeltaContent(upstream[1]) # <<>>
    /\ DeltaContent(upstream[2]) # <<>>
    /\ Len(out) = 1
    /\ out[1].doc.choices.content = DeltaContent(upstream[1]) \o DeltaContent(upstream[2])

---------------------------------------------------------------------------
(* Properties of a request that races with a reload *)

\* the second registry read of the request has happened
BothReadsDone == snap.strip # NoConfig

\* C11: within one chat-completion request the provider lookup of
\* ForwardRequest and the prefix-strip lookup of GetActualModelName read the
\* same installed configuration, whatever a concurrent reload does.
C11_SingleSnapshot == BothReadsDone => snap.find = snap.strip

\* C12: every upstream call carries as its model the client's identifier
\* without the "[name]" prefix of the provider the request resolved to; the
\* bracketed prefix never goes upstream.
C12_PrefixNeverForwarded ==
    \A i \in 1..Len(outbound) :
        <<"[">> \o ResolvedProvider.Name \o <<"]">> \o outbound[i].body.model.s
            = modelName

---------------------------------------------------------------------------
(* Properties of the reload and of Validate *)

\* the reload handler has answered a POST
ReloadAnswered == reload.pc = "done" /\ reload.method = "POST"

\* loadConfig succeeded and the candidate passes Validate
CandidatePasses == configFile.kind = "ok" /\ Validate(configFile.cfg) = NoError

\* C13: a reload whose candidate cannot be read or parsed or fails Validate
\* leaves the installed configuration as it was and answers with the error;
\* the installed configuration changes only when the candidate passes
\* Validate, and then to the candidate.
C13_FailedReloadKeepsConfig ==
    /\ [][config' # config => CandidatePasses /\ config' = configFile.cfg]_vars
    /\ []((ReloadAnswered /\ ~CandidatePasses)
            => /\ config = DefaultConfig
               /\ reload.status \in {400, 500}
               /\ reload.err # NoError)

C13_Witness ==
    /\ ReloadAnswered
    /\ configFile.kind = "ok"
    /\ Validate(configFile.cfg) # NoError
    /\ reload.status = 400
    /\ config = DefaultConfig

\* what the specification asks of a configuration
WellFormedProvider(p) ==
    /\ p.Name # <<>>
    /\ p.URL # ""
    /\ URLParses(p.URL)
    /\ p.Secret # ""
    /\ Len(p.Models) >= 1
    /\ \A j \in 1..Len(p.Models) : p.Models[j] # <<>>

WellFormed(c) ==
    /\ c.Port \in 1..65535
    /\ Len(c.Providers) >= 1
    /\ \A i \in 1..Len(c.Providers) : WellFormedProvider(c.Providers[i])

\* C14: Validate, as the reload applies it to the loaded candidate, returns
\* no error exactly when the port is in 1..65535, there is a provider, and
\* every provider has a name, a URL that parses, a secret and a non-empty
\* list of non-empty model names.
C14_ValidateIffWellFormed ==
    (ReloadAnswered /\ configFile.kind = "ok")
        => (reload.err = NoError <=> WellFormed(configFile.cfg))

\* a candidate whose only flaw is an empty name of its second model is
\* rejected
C14_Witness ==
    /\ ReloadAnswered
    /\ configFile.kind = "ok"
    /\ configFile.cfg.Port = 1
    /\ Len(configFile.cfg.Providers) = 2
    /\ WellFormedProvider(configFile.cfg.Providers[1])
    /\ Len(configFile.cfg.Providers[2].Models) = 2
    /\ [configFile.cfg.Providers[2] EXCEPT !.Models = << <<"a">> >>]
          = configFile.cfg.Providers[1]
    /\ reload.err = Err("model cannot be empty", 2)

---------------------------------------------------------------------------
(* Properties of ForwardRequest *)

\* C15: every upstream call carries the inbound body's fields other than
\* model and stream with the values the client sent: messages and the key
\* the gateway does not know are unchanged, present if and only if the
\* client sent them.
C15_OtherFieldsVerbatim ==
    \A i \in 1..Len(outbound) :
        /\ outbound[i].body.messages = request.body.messages
        /\ outbound[i].body.extra = request.body.extra

\* HandleStreamResponse has been called
Handled == pc # "idle"

\* C16: every upstream call has stream = true, and the mode handed to
\* HandleStreamResponse is streaming exactly when the inbound stream key is
\* the boolean true.
C16_StreamForcedIntentRecorded ==
    /\ \A i \in 1..Len(outbound) : outbound[i].body.stream = "true"
    /\ isClientStreaming => request.body.stream = "true"
    /\ Handled => (isClientStreaming <=> request.body.stream = "true")

\* a client that sent the string "true" is served in non-streaming mode by
\* a call that streams
C16_Witness ==
    /\ pc = "scan"
    /\ request.body.stream = "\"true\""
    /\ ~isClientStreaming
    /\ Len(outbound) = 1
    /\ outbound[1].body.stream = "true"

\* the body is not a JSON object, or has no string model, or its model
\* names no provider of the installed configuration
Unroutable ==
    \/ request.body.kind \in {"invalid", "nonobject", "null"}
    \/ request.body.model.t # "string"
    \/ \A i \in 1..Len(config.Providers) :
          ~IsQualified(config.Providers[i].Name, request.body.model.s)

\* C17: such a request is answered 400 and no upstream call is made for it.
C17_ClientErrorsAre400 ==
    Unroutable
        => /\ outbound = <<>>
           /\ ~Handled
           /\ fpc # "send"
           /\ fpc = "done" => w.wroteHeader /\ w.status = 400

\* an identifier that names no provider has been answered 400
C17_Witness ==
    /\ fpc = "done"
    /\ w.status = 400
    /\ outbound = <<>>
    /\ request.body.kind = "object"
    /\ request.body.model = JModel("string", <<"[", "c", "]", "a">>)

\* C18: when the upstream call fails the client gets 500, the reshaper is
\* not entered, and at most one request went to the provider.
C18_UpstreamFailureIs500 ==
    resp.err # "nil"
        => /\ fpc = "done"
           /\ w.wroteHeader /\ w.status = 500
           /\ ~Handled /\ out = <<>>
           /\ Len(outbound) <= 1

C18_Witness ==
    /\ resp.err = "transport_error"
    /\ w.status = 500
    /\ Len(outbound) = 1
    /\ ~Handled

\* C20: every upstream call has the single Authorization value "Bearer " +
\* the resolved provider's secret, none of the client's; every other
\* inbound header and the query string are the client's.
C20_AuthorizationReplaced ==
    \A i \in 1..Len(outbound) :
        /\ outbound[i].header["Authorization"]
              = <<HeaderValue("Bearer ", ResolvedProvider.Secret)>>
        /\ \A n \in HeaderNames \ {"Authorization"} :
              outbound[i].header[n] = request.header[n]
        /\ outbound[i].query = request.query

C20_Witness ==
    /\ Len(outbound) = 1
    /\ Len(request.header["Authorization"]) = 2
    /\ Len(request.header["X-Trace"]) = 1
    /\ request.query = "a=1"
    /\ provider = 2
    /\ outbound[1].header["Authorization"] = <<HeaderValue("Bearer ", "sb")>>

\* the upstream answered 200 and the handler has delivered a body
Succeeded == pc = "done" /\ resp.StatusCode = 200 /\ out # <<>>

\* C19: the Content-Type sent with the head of a successful chat
\* completion is text/event-stream for a streaming client and
\* application/json for a non-streaming one, whatever the upstream sent.
C19_ContentTypeFollowsMode ==
    Succeeded
        => w.contentType = IF isClientStreaming THEN "text/event-stream"
                           ELSE "application/json"

---------------------------------------------------------------------------
(* Properties of the reload endpoint *)

\* C23: a non-POST reload is answered 405 and neither takes the lock nor
\* changes the configuration; a POST is answered 500 when the file cannot be
\* read or parsed, 400 when the candidate is not well formed, and 200 with
\* the number of providers of the configuration it installed otherwise.
C23_ReloadStatusCodes ==
    /\ [][reload'.method \notin {"", "POST"} => mu' = mu /\ config' = config]_vars
    /\ [](reload.method \notin {"", "POST"}
            => reload.status = 405 /\ mu = MuFree /\ config = DefaultConfig)
    /\ [](ReloadAnswered =>
            IF configFile.kind # "ok" THEN reload.status = 500
            ELSE IF ~WellFormed(configFile.cfg) THEN reload.status = 400
            ELSE /\ reload.status = 200
                 /\ config = configFile.cfg
                 /\ reload.providers = Len(configFile.cfg.Providers))

\* an unparseable file has been answered 500
C23_Witness ==
    /\ ReloadAnswered
    /\ configFile.kind = "unparseable"
    /\ reload.status = 500
    /\ reload.err # NoError

---------------------------------------------------------------------------
(* Properties of finalization *)

\* a data: line that decoded into a chunk has been consumed
SomeChunkConsumed == \E k \in 1..pos : upstream[k].kind = "chunk"

\* the first chunk that was decoded
FirstChunk ==
    LET k == CHOOSE n \in 1..pos :
                /\ upstream[n].kind = "chunk"
                /\ \A j \in 1..(n - 1) : upstream[j].kind # "chunk"
    IN  upstream[k].chunk

\* C25: the response to a non-streaming request in which a chunk was
\* decoded is the first decoded chunk with its first choice carrying, in
\* place of any delta, a message whose content is all the text accumulated;
\* whatever the choices of that first chunk are.
C25_AggregateIsFirstChunkWithMessage ==
    (NonStreamingDone /\ SomeChunkConsumed)
        => out = <<Written("json",
                           [FirstChunk EXCEPT
                               !.choices = Choice("message", TRUE,
                                                  ConcatContent(Consumed))],
                           0)>>

\* the [DONE] terminators sent to the client
DoneSent == {i \in 1..Len(out) : out[i].kind = "done"}

\* C26: a streaming response that has reached finalization has sent the
\* [DONE] terminator exactly once, as its last output, and finalization
\* adds nothing to it.
C26_DoneSentOnceAndLast ==
    (isClientStreaming /\ pc \in {"final", "done"})
        => /\ Cardinality(DoneSent) = 1
           /\ out[Len(out)].kind = "done"
           /\ flushed = Len(out)

\* C27: a non-streaming request whose upstream body yielded no decoded
\* chunk ends with no body written and the status 200.
C27_NothingDecodedNothingWritten ==
    (NonStreamingDone /\ ~SomeChunkConsumed)
        => /\ out = <<>>
           /\ w.wroteHeader
           /\ w.status = 200

\* the body was a malformed frame, a line without data: and [DONE]
C27_Witness ==
    /\ NonStreamingDone
    /\ pos = 3
    /\ upstream[1].kind = "bad"
    /\ upstream[2].kind = "other"
    /\ upstream[3].kind = "done"
    /\ out = <<>>
    /\ w.status = 200

---------------------------------------------------------------------------
(* Properties of the registry when several providers match *)

\* the providers whose bracket prefix the identifier carries
QualifiedProviders ==
    {i \in 1..Len(config.Providers) : IsQualified(ProviderName(i), modelName)}

\* the one that comes first in the configuration
FirstQualified ==
    CHOOSE i \in QualifiedProviders : \A j \in QualifiedProviders : i <= j

\* C29: when more than one provider matches the identifier, FindProvider
\* returns the first of them in configuration order and GetActualModelName
\* removes "[" + that provider's name + "]" and nothing else.
C29_FirstMatchWins ==
    Cardinality(QualifiedProviders) > 1
        => /\ called = "FindProvider" => provider = FirstQualified
           /\ called = "GetActualModelName"
                => actualModelName
                     = SubSeq(modelName, Len(ProviderName(FirstQualified)) + 3,
                              Len(modelName))

\* two providers with different names both match and the shorter prefix,
\* which is first, was stripped
C29_Witness ==
    /\ called = "GetActualModelName"
    /\ Len(config.Providers) = 2
    /\ ProviderName(1) = <<"a">>
    /\ ProviderName(2) = <<"a", "]">>
    /\ modelName = <<"[", "a", "]", "]", "a">>
    /\ actualModelName = <<"]", "a">>

---------------------------------------------------------------------------
(* Properties of the installed configuration *)

\* C30: whatever reloads have succeeded or failed since startup, the
\* installed configuration has a port in 1..65535, at least one provider,
\* and only well-formed providers.
C30_InstalledConfigIsValid == WellFormed(config)

\* a reload has succeeded and a later one has failed validation
C30_Witness ==
    /\ reload.served = 2
    /\ ReloadAnswered
    /\ reload.status = 400
    /\ configFile.kind = "ok"
    /\ configFile.cfg.Port = 65536
    /\ config.Port = 65535

---------------------------------------------------------------------------
(* Properties of the model listing *)

\* the ids a client expects from the providers ps, in configuration order
RECURSIVE ExpectedIds(_)
ExpectedIds(ps) ==
    IF ps = <<>> THEN <<>>
    ELSE ExpectedIds(SubSeq(ps, 1, Len(ps) - 1))
         \o [j \in 1..Len(ps[Len(ps)].Models) |->
                <<"[">> \o ps[Len(ps)].Name \o <<"]">>
                        \o ps[Len(ps)].Models[j]]

ListedIds == [k \in 1..Len(models.data) |-> models.data[k].ID]

\* the listing is taken from one installed configuration, which stays
\* installed while it is taken, and has one entry per model, in order
ListingOfOneConfig ==
    /\ models.pc = "loop"
         => /\ config = models.cfg
            /\ models.providers = config.Providers
            /\ ListedIds
                 = ExpectedIds(SubSeq(models.providers, 1, models.i - 1))
    /\ models.pc = "done"
         => /\ ListedIds = ExpectedIds(models.cfg.Providers)
            /\ \A k \in 1..Len(models.data) : models.data[k].Object = "model"
            /\ models.status = 200

SentBack == models.data[models.sent]

\* providers before the listing one whose bracket prefix also matches
EarlierMatches ==
    {j \in 1..(SentBack.by - 1) :
        Matches(models.cfg.Providers[j].Name, SentBack.ID)}

---------------------------------------------------------------------------
(* Properties of the configuration lock *)

\* C24: every handler that starts acquiring the configuration lock
\* eventually acquires and releases it: the chat request leaves its
\* locked lookup and its second lookup, the reload is answered, and the
\* model listing is written.
C24_EveryLockIsReleased ==
    /\ (fpc = "rlock") ~> (fpc \notin {"rlock", "find", "runlock"})
    /\ (fpc = "strip") ~> (fpc # "strip")
    /\ (reload.pc = "lock") ~> (reload.pc = "done")
    /\ (models.pc = "rlock") ~> (models.pc = "done")

---------------------------------------------------------------------------
(* Properties of the request deadline *)

\* C21: once the deadline has passed, no further upstream line is
\* consumed and nothing more is written to the client: what was streamed
\* stays as it is and no aggregated document follows; and a request whose
\* response had not been started ends with status 500.
C21_TimeoutEndsInServerError ==
    /\ [][ctx = "expired" => pos' = pos /\ out' = out]_vars
    /\ [](ctx = "expired" /\ fpc = "done" /\ ~isClientStreaming
            => w.status = 500)

---------------------------------------------------------------------------
(* Properties of tool calls in streamed events *)

\* the chunk's delta carries at least one tool call
CarriesToolCall(chunk) ==
    Len(chunk.tool_calls) > 0 /\ chunk.tool_calls[1] # NonObject

\* C28: in every streamed event made from a chunk whose delta carries a
\* tool call, the first tool call's id is the normalized id of the chunk
\* (its id, else its trace_id) and is the id the event carries, and the
\* other tool calls keep the ids the upstream gave them.
C28_FirstToolCallIdIsChunkId ==
    \A k \in 1..Len(out) :
        IsEvent(out[k]) /\ CarriesToolCall(SourceChunk(out[k]))
            => /\ Len(out[k].doc.tool_calls) = Len(SourceChunk(out[k]).tool_calls)
               /\ out[k].doc.tool_calls[1] = NormalizedId(SourceChunk(out[k]))
               /\ out[k].doc.tool_calls[1] = out[k].doc.id
               /\ \A j \in 2..Len(out[k].doc.tool_calls) :
                     out[k].doc.tool_calls[j] = SourceChunk(out[k]).tool_calls[j]

---------------------------------------------------------------------------
(* Properties of provider names *)

\* C31: the providers of the installed configuration have pairwise
\* distinct names.
C31_ProviderNamesDistinct ==
    \A i, j \in 1..Len(config.Providers) :
        i # j => config.Providers[i].Name # config.Providers[j].Name

---------------------------------------------------------------------------
(* Properties of the order of Validate's checks *)

NameOk(p) == p.Name # <<>>
URLOk(p) == p.URL # "" /\ URLParses(p.URL)
SecretOk(p) == p.Secret # ""
ModelsOk(p) == Len(p.Models) >= 1 /\ \A j \in 1..Len(p.Models) : p.Models[j] # <<>>

\* msg names the first field of p that is wrong, in the order name, URL,
\* secret, models
NamesFirstFlaw(msg, p) ==
    /\ msg = "name cannot be empty" <=> ~NameOk(p)
    /\ msg \in {"URL cannot be empty", "invalid URL"}
         <=> NameOk(p) /\ ~URLOk(p)
    /\ msg = "URL cannot be empty" => p.URL = ""
    /\ msg = "secret cannot be empty"
         <=> NameOk(p) /\ URLOk(p) /\ ~SecretOk(p)
    /\ msg \in {"at least one model must be specified", "model cannot be empty"}
         <=> NameOk(p) /\ URLOk(p) /\ SecretOk(p) /\ ~ModelsOk(p)
    /\ msg = "at least one model must be specified" => Len(p.Models) = 0

\* C32: Validate, as the reload applies it to the loaded candidate, reports
\* the first failing check: the port message whenever the port is out of
\* range, whatever the providers; the no-provider message for a good port
\* and an empty list; otherwise the first provider in configuration order
\* that is wrong, and of it the first wrong field in the order name, URL,
\* secret, models.
C32_FirstFailingCheckIsReported ==
    (ReloadAnswered /\ configFile.kind = "ok") =>
        LET c == configFile.cfg
            bad == {i \in 1..Len(c.Providers) :
                        ~WellFormedProvider(c.Providers[i])}
        IN  IF c.Port \notin 1..65535
            THEN reload.err = Err("port must be between 1 and 65535", 0)
            ELSE IF Len(c.Providers) = 0
            THEN reload.err = Err("at least one provider must be configured", 0)
            ELSE IF bad # {}
            THEN /\ reload.err.at \in bad
                 /\ \A i \in bad : reload.err.at <= i
                 /\ NamesFirstFlaw(reload.err.msg, c.Providers[reload.err.at])
            ELSE reload.err = NoError

\* a candidate with the port 65536 and a provider with no name and no
\* secret is rejected with the port message
C32_Witness ==
    /\ ReloadAnswered
    /\ configFile.kind = "ok"
    /\ configFile.cfg.Port = 65536
    /\ Len(configFile.cfg.Providers) = 1
    /\ configFile.cfg.Providers[1].Name = <<>>
    /\ configFile.cfg.Providers[1].Secret = ""
    /\ reload.status = 400
    /\ reload.err.msg = "port must be between 1 and 65535"

---------------------------------------------------------------------------
(* Properties of the status code *)

UpstreamAnswered == resp.StatusCode # 0

\* C33: once the upstream has answered, a streaming client has the
\* upstream's status code committed before any event is written, and
\* every client, streaming or not, ends with the upstream's status code.
C33_StatusIsUpstreamStatus ==
    /\ (UpstreamAnswered /\ isClientStreaming /\ out # <<>>)
          => w.wroteHeader /\ w.status = resp.StatusCode
    /\ (UpstreamAnswered /\ fpc = "done") => w.status = resp.StatusCode

============================================================================
